---- MODULE Spec2Model ----
(***************************************************************************)
(* Model of src/app.py: the Telegram webhook relay.  One coroutine of      *)
(* `webhook` runs per inbound POST; it is suspended at the provider call   *)
(* (gemini_generate) and at each telegram_send.  Texts are sequences of    *)
(* string tokens, so that strip(), f-string formatting and "contains" are  *)
(* computed and not assumed.                                               *)
(***************************************************************************)
EXTENDS Integers, Sequences, FiniteSets, TLC

VARIABLES pc, req, locals, calls, response

vars == <<pc, req, locals, calls, response>>

(***************************************************************************)
(* Bounds of the model.                                                    *)
(***************************************************************************)
\* longest raw text a provider answer carries (tokens)
MaxLen == 2
\* longest inbound user text (tokens)
MaxUserLen == 1
\* number of webhook coroutines the host runs at once
NumReq == 2

Req == 1..NumReq

(***************************************************************************)
(* Texts.                                                                  *)
(***************************************************************************)
SeqsUpTo(S, n) == UNION {[1..k -> S] : k \in 0..n}

\* str.strip() with no argument removes leading and trailing whitespace
IsSpace(c) == c \in {" ", "\n"}

RECURSIVE lstrip(_)
lstrip(s) == IF s # <<>> /\ IsSpace(Head(s)) THEN lstrip(Tail(s)) ELSE s

RECURSIVE rstrip(_)
rstrip(s) ==
    IF s # <<>> /\ IsSpace(s[Len(s)]) THEN rstrip(SubSeq(s, 1, Len(s) - 1)) ELSE s

strip(s) == rstrip(lstrip(s))

\* truthiness of an int (used by `if reply_to:`)
Truthy(n) == n # 0

(***************************************************************************)
(* Module-level constants of app.py (long literals are abbreviated to one  *)
(* token each; the Sinhala sentence and the en dash are transliterated).   *)
(***************************************************************************)
WEBHOOK_SECRET == "s3cret"

COMMANDS_TEXT == "/quiz [subject] [topic] [n] ... /help - Show all commands and examples."

FOOTER == "\n---\n**Developed by Senula Akarsha**\n---"

SYSTEM_INSTRUCTIONS == "You are an Advanced Level (A/L) multi-subject tutor ..."

PROMPT_TEMPLATE(system, user) ==
    <<system, "\n\nUser question:\n">> \o user \o <<"\n\nRemember:\n- Restate the question simply. ...">>

FALLBACK ==
    << "**Answer (English):**\nSorry, I couldn't generate a response.\n\n",
       "**Answer (Sinhala):**\n(Sinhala: sorry, no answer could be produced)\n\n",
       COMMANDS_TEXT, FOOTER >>

(***************************************************************************)
(* Exceptions and HTTP responses of the webhook.                           *)
(***************************************************************************)
Exc(type, status, text) == [type |-> type, status |-> status, text |-> text]

NoExc == Exc("none", 0, <<>>)

Reply(status, ok, error) == [status |-> status, ok |-> ok, error |-> error]

NoReply == Reply(0, FALSE, "")
OkTrue == Reply(200, TRUE, "")
BadSecret == Reply(200, FALSE, "bad secret")
\* an exception that leaves the handler: the ASGI host answers 500
ServerError == Reply(500, FALSE, "Internal Server Error")

(***************************************************************************)
(* Inbound updates.  A message slot of the update is absent, an empty      *)
(* object, or an object with some of the keys chat.id, message_id, text    *)
(* (has_other: any further key, such as photo).                            *)
(***************************************************************************)
Msg(kind, has_other, has_chat, chat_id, has_mid, mid, has_text, text) ==
    [kind |-> kind, has_other |-> has_other, has_chat |-> has_chat, chat_id |-> chat_id,
     has_mid |-> has_mid, message_id |-> mid, has_text |-> has_text, text |-> text]

Absent == Msg("absent", FALSE, FALSE, 0, FALSE, 0, FALSE, <<>>)
EmptyObj == Msg("dict", FALSE, FALSE, 0, FALSE, 0, FALSE, <<>>)
TextMsg(chat, mid, text) == Msg("dict", FALSE, TRUE, chat, TRUE, mid, TRUE, text)
PhotoMsg(chat, mid) == Msg("dict", TRUE, TRUE, chat, TRUE, mid, FALSE, <<>>)

Body(kind, message, edited_message) ==
    [kind |-> kind, message |-> message, edited_message |-> edited_message]

\* a request body that is not JSON / JSON but not an object
NotJson == Body("not_json", Absent, Absent)
NotObject == Body("not_object", Absent, Absent)
Update(message, edited_message) == Body("object", message, edited_message)

NoRequest == [secret |-> "", body |-> Update(Absent, Absent)]

\* Python truthiness of update.get(key): None and {} are falsy
MsgTruthy(m) ==
    m.kind = "dict" /\ (m.has_other \/ m.has_chat \/ m.has_mid \/ m.has_text)

(***************************************************************************)
(* Answers of the two remote services.                                     *)
(***************************************************************************)
\* the JSON document of a 2xx provider answer, as far as line 94 reads it
Data(has_candidates, n_candidates, has_content, has_parts, n_parts, has_text, text) ==
    [has_candidates |-> has_candidates, n_candidates |-> n_candidates,
     has_content |-> has_content, has_parts |-> has_parts, n_parts |-> n_parts,
     has_text |-> has_text, text |-> text]

NoData == Data(FALSE, 0, FALSE, FALSE, 0, FALSE, <<>>)

\* kind: "raise" (client.post raised, desc = str(e)) or "http" (an answer came)
Outcome(kind, desc, status, text, is_json, data) ==
    [kind |-> kind, desc |-> desc, status |-> status, text |-> text,
     is_json |-> is_json, data |-> data]

NoOutcome == Outcome("none", <<>>, 0, <<>>, FALSE, NoData)
Raised(desc) == Outcome("raise", desc, 0, <<>>, FALSE, NoData)
HttpError(status, text) == Outcome("http", <<>>, status, text, FALSE, NoData)
HttpJunk(status) == Outcome("http", <<>>, status, <<"<html>">>, FALSE, NoData)
HttpJson(status, data) == Outcome("http", <<>>, status, <<>>, TRUE, data)

IsSuccess(status) == status \in 200..299

(***************************************************************************)
(* gemini_generate                                                         *)
(***************************************************************************)
\* an outbound POST: its JSON body, and for telegram_send the reply_to argument
\* it was called with (has_reply_to: the body has the key reply_to_message_id)
Call(api, chat_id, text, parse_mode, arg_reply_to, has_reply_to, reply_to) ==
    [api |-> api, chat_id |-> chat_id, text |-> text, parse_mode |-> parse_mode,
     arg_reply_to |-> arg_reply_to,
     has_reply_to |-> has_reply_to, reply_to_message_id |-> reply_to]

\* the POST of lines 82-91; text is contents[0].parts[0].text
gemini_post(prompt_text) == Call("gemini", 0, prompt_text, "", 0, FALSE, 0)

Result(exc, value) == [exc |-> exc, value |-> value]

\* line 94: data.get("candidates", [{}])[0].get("content", {})
\*              .get("parts", [{}])[0].get("text", "").strip()
gemini_extract(data) ==
    LET n_cand == IF data.has_candidates THEN data.n_candidates ELSE 1
        has_content == data.has_candidates /\ data.has_content
        has_parts == has_content /\ data.has_parts
        n_parts == IF has_parts THEN data.n_parts ELSE 1
        has_text == has_parts /\ data.has_text
    IN  IF n_cand = 0 \/ n_parts = 0
        THEN Result(Exc("IndexError", 0, <<"list index out of range">>), <<>>)
        ELSE Result(NoExc, strip(IF has_text THEN data.text ELSE <<>>))

\* what `await gemini_generate(prompt)` gives once the POST has ended with o
gemini_generate(o) ==
    IF o.kind = "raise" THEN Result(Exc("TransportError", 0, o.desc), <<>>)
    ELSE IF ~IsSuccess(o.status)
         THEN Result(Exc("HTTPStatusError", o.status, o.text), <<>>)
    ELSE IF ~o.is_json
         THEN Result(Exc("JSONDecodeError", 0,
                         <<"Expecting value: line 1 column 1 (char 0)">>), <<>>)
    ELSE gemini_extract(o.data)

(***************************************************************************)
(* telegram_send                                                           *)
(***************************************************************************)
\* the POST of lines 98-101: reply_to_message_id is set only `if reply_to:`
telegram_send(chat_id, text, reply_to) ==
    Call("telegram", chat_id, text, "Markdown", reply_to, Truthy(reply_to),
         IF Truthy(reply_to) THEN reply_to ELSE 0)

\* variant: an empty answer is relayed as it is
RelayTextNoFallback(out) == out

\* lines 120-125
RelayText(out) == IF out = <<>> THEN FALLBACK ELSE out

\* line 128
ApiErrorText(e) == <<"API error: ", ToString(e.status), " - ">> \o e.text

\* variant: the exception's description is dropped
ErrorTextGeneric(e) == <<"Error: ">>

\* line 130
ErrorText(e) == <<"Error: ">> \o e.text

(***************************************************************************)
(* webhook, up to its first suspension at an outbound call                 *)
(***************************************************************************)
Entry(kind, reply, chat_id, mid, user_text) ==
    [kind |-> kind, reply |-> reply, chat_id |-> chat_id, mid |-> mid,
     user_text |-> user_text]

\* variant: falls through to edited_message whenever message has no text
ChosenMsgPreferText(update) ==
    IF MsgTruthy(update.message) /\ update.message.has_text
    THEN update.message ELSE update.edited_message

\* line 109: update.get("message") or update.get("edited_message")
ChosenMsg(update) ==
    IF MsgTruthy(update.message) THEN update.message ELSE update.edited_message

\* variant: the body is parsed before the secret is compared
webhook_entry_parse_first(secret, body) ==
    IF body.kind # "object" THEN Entry("raise", ServerError, 0, 0, <<>>)
    ELSE IF secret # WEBHOOK_SECRET THEN Entry("return", BadSecret, 0, 0, <<>>)
    ELSE LET msg == ChosenMsg(body)
         IN  IF ~MsgTruthy(msg) \/ ~msg.has_text
             THEN Entry("return", OkTrue, 0, 0, <<>>)
             ELSE IF ~msg.has_chat \/ ~msg.has_mid
                  THEN Entry("raise", ServerError, 0, 0, <<>>)
                  ELSE Entry("relay", NoReply, msg.chat_id, msg.message_id,
                             strip(msg.text))

\* lines 105-115: kind is "return" (the handler answered), "raise" (an
\* exception left the handler) or "relay" (the try block is entered)
webhook_entry(secret, body) ==
    IF secret # WEBHOOK_SECRET THEN Entry("return", BadSecret, 0, 0, <<>>)
    ELSE IF body.kind # "object" THEN Entry("raise", ServerError, 0, 0, <<>>)
    ELSE LET msg == ChosenMsg(body)
         IN  IF ~MsgTruthy(msg) \/ ~msg.has_text
             THEN Entry("return", OkTrue, 0, 0, <<>>)
             ELSE IF ~msg.has_chat \/ ~msg.has_mid
                  THEN Entry("raise", ServerError, 0, 0, <<>>)
                  ELSE Entry("relay", NoReply, msg.chat_id, msg.message_id,
                             strip(msg.text))

(***************************************************************************)
(* State: one frame of `webhook` per coroutine slot.                       *)
(*   pc        where the coroutine is suspended                            *)
(*   req       the POST it is handling (path secret and body)              *)
(*   locals    chat_id, mid, user_text, out, e of the frame; r is the      *)
(*             answer the provider gave to this frame's call               *)
(*   calls     the outbound POSTs this invocation has issued, in order     *)
(*   response  what the HTTP caller got                                    *)
(***************************************************************************)
Frame(chat_id, mid, user_text, out, e, r) ==
    [chat_id |-> chat_id, mid |-> mid, user_text |-> user_text, out |-> out,
     e |-> e, r |-> r]

NoFrame == Frame(0, 0, <<>>, <<>>, NoExc, NoOutcome)

\* variant: chat_id, mid and text are module-level names, one frame for all
LocalShared(h) == locals[1]

\* the frame a coroutine reads its locals from
Local(h) == locals[h]

Init ==
    /\ pc = [h \in Req |-> "idle"]
    /\ req = [h \in Req |-> NoRequest]
    /\ locals = [h \in Req |-> NoFrame]
    /\ calls = [h \in Req |-> <<>>]
    /\ response = [h \in Req |-> NoReply]

\* variant: an update whose chat and message id another frame holds is
\* acknowledged without being relayed
ReceiveDedup(h, secret, body) ==
    /\ pc[h] \in {"idle", "done"}
    /\ LET w == webhook_entry(secret, body)
           seen == \E g \in Req \ {h} :
                       /\ Len(calls[g]) > 0
                       /\ locals[g].chat_id = w.chat_id
                       /\ locals[g].mid = w.mid
           relay == w.kind = "relay" /\ ~seen
       IN  /\ req' = [req EXCEPT ![h] = [secret |-> secret, body |-> body]]
           /\ locals' = [locals EXCEPT
                  ![h] = Frame(w.chat_id, w.mid, w.user_text, <<>>, NoExc, NoOutcome)]
           /\ pc' = [pc EXCEPT ![h] = IF relay THEN "gemini" ELSE "done"]
           /\ calls' = [calls EXCEPT ![h] =
                  IF relay
                  THEN <<gemini_post(PROMPT_TEMPLATE(SYSTEM_INSTRUCTIONS, w.user_text))>>
                  ELSE <<>>]
           /\ response' = [response EXCEPT ![h] =
                  IF relay THEN NoReply
                  ELSE IF w.kind = "relay" THEN OkTrue ELSE w.reply]

\* lines 104-119: a POST arrives on a free slot and runs to its answer or to
\* the provider call
Receive(h, secret, body) ==
    /\ pc[h] \in {"idle", "done"}
    /\ LET w == webhook_entry(secret, body)
       IN  /\ req' = [req EXCEPT ![h] = [secret |-> secret, body |-> body]]
           /\ locals' = [locals EXCEPT
                  ![h] = Frame(w.chat_id, w.mid, w.user_text, <<>>, NoExc, NoOutcome)]
           /\ IF w.kind = "relay"
              THEN /\ pc' = [pc EXCEPT ![h] = "gemini"]
                   /\ calls' = [calls EXCEPT ![h] =
                          <<gemini_post(PROMPT_TEMPLATE(SYSTEM_INSTRUCTIONS, w.user_text))>>]
                   /\ response' = [response EXCEPT ![h] = NoReply]
              ELSE /\ pc' = [pc EXCEPT ![h] = "done"]
                   /\ calls' = [calls EXCEPT ![h] = <<>>]
                   /\ response' = [response EXCEPT ![h] = w.reply]

\* lines 92-94 and 119-130: the provider call ends with o; the handler issues
\* the send of line 126, 128 or 130
GeminiReturns(h, o) ==
    /\ pc[h] = "gemini"
    /\ LET g == gemini_generate(o)
           f == Local(h)
           out == IF g.exc = NoExc THEN RelayText(g.value) ELSE <<>>
           text == IF g.exc = NoExc THEN out
                   ELSE IF g.exc.type = "HTTPStatusError" THEN ApiErrorText(g.exc)
                   ELSE ErrorText(g.exc)
       IN  /\ locals' = [locals EXCEPT ![h].out = out, ![h].e = g.exc, ![h].r = o]
           /\ calls' = [calls EXCEPT ![h] = Append(@, telegram_send(f.chat_id, text, f.mid))]
           /\ pc' = [pc EXCEPT ![h] =
                  IF g.exc = NoExc THEN "send"
                  ELSE IF g.exc.type = "HTTPStatusError" THEN "send_api_error"
                  ELSE "send_error"]
    /\ UNCHANGED <<req, response>>

\* lines 126, 129-132: the send of line 126 ends with o.  client.post raises
\* only on transport failure; any HTTP answer counts as sent
SendReturns(h, o) ==
    /\ pc[h] = "send"
    /\ IF o.kind = "raise"
       THEN LET e == Exc("TransportError", 0, o.desc)
                f == Local(h)
            IN  /\ locals' = [locals EXCEPT ![h].e = e]
                /\ calls' = [calls EXCEPT ![h] =
                       Append(@, telegram_send(f.chat_id, ErrorText(e), f.mid))]
                /\ pc' = [pc EXCEPT ![h] = "send_error"]
                /\ UNCHANGED response
       ELSE /\ pc' = [pc EXCEPT ![h] = "done"]
            /\ response' = [response EXCEPT ![h] = OkTrue]
            /\ UNCHANGED <<locals, calls>>
    /\ UNCHANGED req

\* lines 128, 130, 132: the send made inside an except block ends with o; an
\* exception raised there is handled by no one and leaves the handler
ErrorSendReturns(h, o) ==
    /\ pc[h] \in {"send_api_error", "send_error"}
    /\ pc' = [pc EXCEPT ![h] = "done"]
    /\ response' = [response EXCEPT ![h] = IF o.kind = "raise" THEN ServerError ELSE OkTrue]
    /\ UNCHANGED <<req, locals, calls>>

(***************************************************************************)
(* Inputs.                                                                 *)
(***************************************************************************)
Secrets == {WEBHOOK_SECRET, "wrong"}
ChatIds == {7, -100}
MsgIds == {0, 5}
UserTexts == SeqsUpTo({" ", "q"}, MaxUserLen)

TextMsgs == {TextMsg(c, m, t) : c \in ChatIds, m \in MsgIds, t \in UserTexts}

\* objects with text but without chat / without message_id
BrokenMsgs ==
    { Msg("dict", FALSE, FALSE, 0, TRUE, 5, TRUE, <<"q">>),
      Msg("dict", FALSE, TRUE, 7, FALSE, 0, TRUE, <<"q">>) }

Msgs == {Absent, EmptyObj, PhotoMsg(7, 5)} \cup TextMsgs \cup BrokenMsgs
EditedMsgs == {Absent, EmptyObj, PhotoMsg(7, 6), TextMsg(-100, 6, <<"q", " ">>)}

Bodies == {NotJson, NotObject} \cup {Update(m, e) : m \in Msgs, e \in EditedMsgs}

Descs == {<<>>, <<"All connection attempts failed">>}
RawTexts == SeqsUpTo({" ", "a"}, MaxLen)

Shapes ==
    { Data(FALSE, 0, FALSE, FALSE, 0, FALSE, <<>>),    \* no "candidates"
      Data(TRUE, 0, FALSE, FALSE, 0, FALSE, <<>>),     \* "candidates": []
      Data(TRUE, 1, FALSE, FALSE, 0, FALSE, <<>>),     \* candidate without "content"
      Data(TRUE, 1, TRUE, FALSE, 0, FALSE, <<>>),      \* content without "parts"
      Data(TRUE, 1, TRUE, TRUE, 0, FALSE, <<>>),       \* "parts": []
      Data(TRUE, 1, TRUE, TRUE, 1, FALSE, <<>>) }      \* part without "text"
    \cup {Data(TRUE, 1, TRUE, TRUE, 1, TRUE, t) : t \in RawTexts}

ProviderOutcomes ==
    {Raised(d) : d \in Descs}
    \cup {HttpError(s, b) : s \in {429, 503}, b \in {<<>>, <<"rate limited">>}}
    \cup {HttpJunk(200)}
    \cup {HttpJson(200, d) : d \in Shapes}

SendOutcomes ==
    {Raised(d) : d \in Descs}
    \cup {HttpJson(200, NoData), HttpError(400, <<"can't parse entities">>)}

\* one request at a time, every input
Next ==
    \/ \E s \in Secrets, b \in Bodies : Receive(1, s, b)
    \/ \E o \in ProviderOutcomes : GeminiReturns(1, o)
    \/ \E o \in SendOutcomes : SendReturns(1, o)
    \/ \E o \in SendOutcomes : ErrorSendReturns(1, o)

Spec == Init /\ [][Next]_vars

\* NumReq requests in flight at once, a few inputs
ConcBodies ==
    { Update(TextMsg(7, 5, <<"q">>), Absent),
      Update(TextMsg(-100, 0, <<"q">>), Absent),
      Update(TextMsg(7, 6, <<" ", "q">>), Absent) }

ConcProviderOutcomes ==
    { HttpJson(200, Data(TRUE, 1, TRUE, TRUE, 1, TRUE, <<"a">>)),
      HttpJson(200, Data(TRUE, 1, TRUE, TRUE, 1, TRUE, <<"a", "a">>)),
      HttpError(429, <<"rate limited">>) }

ConcSendOutcomes == {Raised(<<"All connection attempts failed">>), HttpJson(200, NoData)}

NextConc ==
    \/ \E h \in Req, b \in ConcBodies : Receive(h, WEBHOOK_SECRET, b)
    \/ \E h \in Req, o \in ConcProviderOutcomes : GeminiReturns(h, o)
    \/ \E h \in Req, o \in ConcSendOutcomes : SendReturns(h, o)
    \/ \E h \in Req, o \in ConcSendOutcomes : ErrorSendReturns(h, o)

SpecConc == Init /\ [][NextConc]_vars

(***************************************************************************)
(* Vocabulary of the properties.                                           *)
(***************************************************************************)
\* sub occurs in text
Contains(text, sub) ==
    \E i \in 0..(Len(text) - Len(sub)) : SubSeq(text, i + 1, i + Len(sub)) = sub

GeminiCalls(h) == SelectSeq(calls[h], LAMBDA c : c.api = "gemini")
TelegramCalls(h) == SelectSeq(calls[h], LAMBDA c : c.api = "telegram")

GoodSecret(h) == req[h].secret = WEBHOOK_SECRET

\* the message of the update a request carries: message, else edited_message
TriggerOf(h) ==
    LET u == req[h].body
    IN  IF MsgTruthy(u.message) THEN u.message ELSE u.edited_message

\* a text update with chat.id, message_id and text in place
WellFormedText(h) ==
    /\ req[h].body.kind = "object"
    /\ MsgTruthy(TriggerOf(h))
    /\ TriggerOf(h).has_text /\ TriggerOf(h).has_chat /\ TriggerOf(h).has_mid

\* the update has no usable message, or the chosen one has no text
Ignorable(h) ==
    LET m == req[h].body.message
        e == req[h].body.edited_message
    IN  /\ req[h].body.kind = "object"
        /\ \/ ~MsgTruthy(m) /\ ~MsgTruthy(e)
           \/ MsgTruthy(m) /\ ~m.has_text
           \/ ~MsgTruthy(m) /\ MsgTruthy(e) /\ ~e.has_text

\* the provider answered this request with a non-2xx status
ProviderStatusError(h) ==
    locals[h].r.kind = "http" /\ ~IsSuccess(locals[h].r.status)

\* the provider answered 2xx with a JSON object
ProviderJson(h) ==
    locals[h].r.kind = "http" /\ IsSuccess(locals[h].r.status) /\ locals[h].r.is_json

\* ... in which candidates[0].content.parts[0].text is all there
FullShape(d) ==
    /\ d.has_candidates /\ d.n_candidates > 0 /\ d.has_content
    /\ d.has_parts /\ d.n_parts > 0 /\ d.has_text

(***************************************************************************)
(* C1.  A POST whose path secret differs from the configured one, whatever *)
(* its body (valid update or not), is answered {"ok": false, "error":      *)
(* "bad secret"} and makes no provider call and no send call.              *)
(***************************************************************************)
C1_BadSecretRejected ==
    \A h \in Req :
        pc[h] # "idle" /\ ~GoodSecret(h)
        => pc[h] = "done" /\ response[h] = BadSecret /\ calls[h] = <<>>

C1_Witness ==
    \E h \in Req :
        /\ pc[h] = "done" /\ ~GoodSecret(h)
        /\ req[h].body.kind = "not_json"
        /\ response[h] = BadSecret

(***************************************************************************)
(* C2.  With the correct secret, an update that has neither a usable       *)
(* message nor edited_message, or whose chosen message has no text key, is *)
(* answered the bare {"ok": true} and makes no outbound call.              *)
(***************************************************************************)
C2_NonTextIgnored ==
    \A h \in Req :
        pc[h] # "idle" /\ GoodSecret(h) /\ Ignorable(h)
        => pc[h] = "done" /\ response[h] = OkTrue /\ calls[h] = <<>>

\* a photo message is chosen although the edited_message slot has text
C2_Witness ==
    \E h \in Req :
        /\ pc[h] = "done" /\ GoodSecret(h) /\ Ignorable(h)
        /\ MsgTruthy(req[h].body.message) /\ ~req[h].body.message.has_text
        /\ req[h].body.edited_message.has_text
        /\ response[h] = OkTrue

(***************************************************************************)
(* C3.  Every well-formed text update with the correct secret (any integer *)
(* chat id, message id, any text) ends with exactly one provider call and  *)
(* exactly one send call, provider first, and the send's                   *)
(* reply_to_message_id equals the inbound message_id.                      *)
(***************************************************************************)
C3_OneProviderOneSend ==
    \A h \in Req :
        pc[h] = "done" /\ GoodSecret(h) /\ WellFormedText(h)
        => /\ Len(GeminiCalls(h)) = 1
           /\ Len(TelegramCalls(h)) = 1
           /\ calls[h][1].api = "gemini"
           /\ TelegramCalls(h)[1].has_reply_to
           /\ TelegramCalls(h)[1].reply_to_message_id = TriggerOf(h).message_id

(***************************************************************************)
(* C4.  Every invocation of the webhook ends with an acknowledgment and    *)
(* HTTP success: no failure of body parsing, field extraction, provider    *)
(* call, send call or error-report send leaves the handler.                *)
(***************************************************************************)
C4_AlwaysAcknowledged ==
    \A h \in Req :
        pc[h] = "done" => response[h].status = 200 /\ response[h] \in {OkTrue, BadSecret}

(***************************************************************************)
(* C5.  When the provider answers a non-2xx status S with body B, the      *)
(* provider is not called again, the chat is sent one message whose text   *)
(* contains S and B, threaded to the triggering message, and the webhook   *)
(* returns {"ok": true}.                                                   *)
(***************************************************************************)
C5_StatusErrorReported ==
    \A h \in Req :
        pc[h] = "done" /\ ProviderStatusError(h)
        => /\ Len(GeminiCalls(h)) = 1
           /\ Len(TelegramCalls(h)) = 1
           /\ Contains(TelegramCalls(h)[1].text, <<ToString(locals[h].r.status)>>)
           /\ Contains(TelegramCalls(h)[1].text, locals[h].r.text)
           /\ TelegramCalls(h)[1].chat_id = TriggerOf(h).chat_id
           /\ TelegramCalls(h)[1].has_reply_to
           /\ TelegramCalls(h)[1].reply_to_message_id = TriggerOf(h).message_id
           /\ response[h] = OkTrue

(***************************************************************************)
(* C6.  A failure inside the relay other than a provider status error (a   *)
(* transport error or malformed answer of the provider call, or a failure  *)
(* of the send of the result) is caught: the provider has been called      *)
(* once, nothing is issued again, and the error path makes exactly one     *)
(* send call, whose text is "Error: " followed by str(e).                  *)
(***************************************************************************)
\* e holds such a failure
OtherFailure(h) == locals[h].e.type \notin {"none", "HTTPStatusError"}

\* the failure came from the send of the result (the provider had answered well)
SendFailed(h) == OtherFailure(h) /\ locals[h].out # <<>>

C6_OtherFailureReported ==
    \A h \in Req :
        OtherFailure(h)
        => /\ pc[h] \in {"send_error", "done"}
           /\ Len(GeminiCalls(h)) = 1
           /\ calls[h][1].api = "gemini"
           /\ Len(TelegramCalls(h)) = (IF SendFailed(h) THEN 2 ELSE 1)
           /\ SendFailed(h) => TelegramCalls(h)[1].text = locals[h].out
           /\ LET last == calls[h][Len(calls[h])]
              IN  /\ last.api = "telegram"
                  /\ last.text = <<"Error: ">> \o locals[h].e.text
                  /\ last.chat_id = TriggerOf(h).chat_id

\* the send of the result failed, was reported, and the report went through
C6_Witness ==
    \E h \in Req :
        /\ pc[h] = "done" /\ SendFailed(h)
        /\ locals[h].e.text = <<"All connection attempts failed">>
        /\ Len(calls[h]) = 3
        /\ response[h] = OkTrue

(***************************************************************************)
(* C7.  When the provider call succeeds, the message sent for it carries   *)
(* the fixed fallback text exactly if the answer's text is empty after     *)
(* stripping whitespace, and the stripped text exactly otherwise; when     *)
(* that send goes through it is the only message of the request.           *)
(***************************************************************************)
C7_RelayedText ==
    \A h \in Req :
        pc[h] \in {"send", "send_error", "done"} /\ ProviderJson(h)
            /\ FullShape(locals[h].r.data)
        => LET t == strip(locals[h].r.data.text)
           IN  /\ Len(calls[h]) >= 2
               /\ calls[h][2].api = "telegram"
               /\ calls[h][2].text =
                      (IF t = <<>>
                       THEN << "**Answer (English):**\nSorry, I couldn't generate a response.\n\n",
                               "**Answer (Sinhala):**\n(Sinhala: sorry, no answer could be produced)\n\n",
                               COMMANDS_TEXT, FOOTER >>
                       ELSE t)
               /\ pc[h] = "done" /\ locals[h].e = NoExc
                  => Len(calls[h]) = 2 /\ response[h] = OkTrue

\* a blank answer was replaced by the fallback, and the reply went through
C7_Witness ==
    \E h \in Req :
        /\ pc[h] = "done" /\ ProviderJson(h) /\ FullShape(locals[h].r.data)
        /\ locals[h].r.data.text = <<" ", " ">>
        /\ calls[h][2].text = FALLBACK
        /\ response[h] = OkTrue

(***************************************************************************)
(* C8.  For every 2xx provider answer in which some part of                *)
(* candidates[0].content.parts[0].text is absent (no candidates key, an    *)
(* empty candidates list, no content, no parts, an empty parts list, no    *)
(* text), extraction yields the empty string, so the chat gets the         *)
(* fallback message and no error message.                                  *)
(***************************************************************************)
C8_AbsentPartsDegrade ==
    \A h \in Req :
        pc[h] # "gemini" /\ ProviderJson(h) /\ ~FullShape(locals[h].r.data)
        => /\ Len(calls[h]) >= 2
           /\ calls[h][2].text = FALLBACK

(***************************************************************************)
(* C9.  The same well-formed text update delivered twice gives two         *)
(* provider calls and two sends: each delivery issues its own provider     *)
(* call and its own send, whatever was handled before or alongside.        *)
(***************************************************************************)
C9_NoDeduplication ==
    \A h, g \in Req :
        h # g /\ pc[h] # "idle" /\ pc[g] # "idle" /\ req[h] = req[g]
            /\ GoodSecret(h) /\ WellFormedText(h)
        => /\ Len(GeminiCalls(h)) = 1 /\ Len(GeminiCalls(g)) = 1
           /\ pc[h] # "gemini" => Len(TelegramCalls(h)) >= 1
           /\ pc[g] # "gemini" => Len(TelegramCalls(g)) >= 1

\* two deliveries of one update, both relayed and acknowledged
C9_Witness ==
    \E h, g \in Req :
        /\ h # g /\ req[h] = req[g] /\ WellFormedText(h)
        /\ pc[h] = "done" /\ pc[g] = "done"
        /\ response[h] = OkTrue /\ response[g] = OkTrue
        /\ Len(calls[h]) = 2 /\ Len(calls[g]) = 2

(***************************************************************************)
(* C10.  Under any interleaving of concurrently handled updates, every     *)
(* send call carries the chat id and the reply-to message id of the update *)
(* that triggered it, and a text derived from that request's own provider  *)
(* answer or error; every provider call carries that update's own text.    *)
(***************************************************************************)
\* the texts a request may send, given the answers it got itself
OwnTexts(h) ==
    LET g == gemini_generate(locals[h].r)
    IN  { IF g.exc = NoExc THEN (IF g.value = <<>> THEN FALLBACK ELSE g.value)
          ELSE IF g.exc.type = "HTTPStatusError"
               THEN <<"API error: ", ToString(locals[h].r.status), " - ">> \o locals[h].r.text
               ELSE <<"Error: ">> \o g.exc.text }
        \cup (IF SendFailed(h) THEN {<<"Error: ">> \o locals[h].e.text} ELSE {})

C10_NoCrossTalk ==
    \A h \in Req :
        \A i \in DOMAIN calls[h] :
            LET c == calls[h][i]
            IN  IF c.api = "telegram"
                THEN /\ c.chat_id = TriggerOf(h).chat_id
                     /\ c.arg_reply_to = TriggerOf(h).message_id
                     /\ c.has_reply_to => c.reply_to_message_id = TriggerOf(h).message_id
                     /\ c.text \in OwnTexts(h)
                ELSE c.text = PROMPT_TEMPLATE(SYSTEM_INSTRUCTIONS, strip(TriggerOf(h).text))

\* two requests of different chats are suspended at their send calls together
C10_Witness ==
    \E h, g \in Req :
        /\ h # g
        /\ pc[h] = "send" /\ pc[g] \in {"send", "send_api_error", "send_error"}
        /\ TriggerOf(h).chat_id # TriggerOf(g).chat_id
        /\ TriggerOf(h).message_id # TriggerOf(g).message_id
        /\ locals[h].r # locals[g].r

====
